---- MODULE Spec2Model ----
(***************************************************************************)
(* Model of scraper.py: the ESTScraper class (URL builder, two-step        *)
(* authenticated fetch, hidden-field extraction, response normalizer) and  *)
(* the command-line entry point.                                           *)
(*                                                                         *)
(* Python values are modelled as follows: a str is a TLA+ string, None is  *)
(* the distinguished value None, a dict is a function whose DOMAIN is its  *)
(* key set, a list is a sequence, an exception is a record naming it.      *)
(***************************************************************************)
EXTENDS Integers, Sequences, FiniteSets, TLC

(***************************************************************************)
(* Bounds of the model.                                                    *)
(***************************************************************************)
\* number of midnights the host clock may cross during one behaviour
MaxTicks == 1
\* number of data entries in a graph payload
MaxEntries == 2
\* number of fetch calls on one scraper instance
MaxFetches == 2
\* number of <input> elements of one name in a page
MaxDup == 1

(***************************************************************************)
(* Python values.                                                          *)
(***************************************************************************)
None == "<None>"
Unset == "<unset>"

\* truth value of a str-or-None operand of `or` / `not`
Truthy(v) == v # None /\ v # ""

\* Or with its operands exchanged: the default wins over the argument
OrSwapped(x, y) == IF Truthy(y) THEN y ELSE x

\* x or y
Or(x, y) == IF Truthy(x) THEN x ELSE y

\* str(v), as applied by str.format and urlencode
Str(v) == IF v = None THEN "None" ELSE v

\* a raised exception
Raise(e) == [exc |-> e]
IsRaise(v) == "exc" \in DOMAIN v

(***************************************************************************)
(* Class constants.                                                        *)
(***************************************************************************)
BASE_HOST == "https://www.e-st.lv"
LOGIN_URL == BASE_HOST \o "/lv/private/user-authentification/"
DATA_URL == BASE_HOST \o "/lv/private/paterini-un-norekini/paterinu-grafiki/"

PERIOD_DAY == "D"
PERIOD_MONTH == "M"
PERIOD_YEAR == "Y"

GRANULARITY_NATIVE == "NATIVE"
GRANULARITY_HOUR == "H"
GRANULARITY_DAY == "D"

Periods == {PERIOD_DAY, PERIOD_MONTH, PERIOD_YEAR}
Granularities == {GRANULARITY_NATIVE, GRANULARITY_HOUR, GRANULARITY_DAY}

(***************************************************************************)
(* Decimal formatting.                                                     *)
(***************************************************************************)
Digits == <<"0", "1", "2", "3", "4", "5", "6", "7", "8", "9">>

\* the decimal digits of n >= 0, zero-padded on the left to width w
RECURSIVE ZeroPad(_, _)
ZeroPad(n, w) ==
    IF w <= 1 /\ n < 10
    THEN Digits[n + 1]
    ELSE ZeroPad(n \div 10, w - 1) \o Digits[(n % 10) + 1]

(***************************************************************************)
(* The host clock: a local calendar date.                                  *)
(***************************************************************************)
IsLeap(y) == (y % 4 = 0 /\ y % 100 # 0) \/ y % 400 = 0

DaysInMonth(y, m) ==
    IF m = 2 THEN (IF IsLeap(y) THEN 29 ELSE 28)
    ELSE IF m \in {4, 6, 9, 11} THEN 30 ELSE 31

\* the date that follows date c
NextDate(c) ==
    IF c.d < DaysInMonth(c.y, c.m) THEN [c EXCEPT !.d = c.d + 1]
    ELSE IF c.m < 12 THEN [y |-> c.y, m |-> c.m + 1, d |-> 1]
    ELSE [y |-> c.y + 1, m |-> 1, d |-> 1]

\* dates the host clock may show when a behaviour starts
ClockStarts ==
    { [y |-> 2015, m |-> 12, d |-> 31],
      [y |-> 2016, m |-> 1,  d |-> 31] }

\* datetime.datetime.now().strftime(options) for the three directives used
strftime_date(c, options) ==
    CASE options = "%Y" -> ZeroPad(c.y, 4)
      [] options = "%m" -> ZeroPad(c.m, 2)
      [] options = "%d" -> ZeroPad(c.d, 2)

(***************************************************************************)
(* HTML documents as PyQuery sees them.  A document carries, for each      *)
(* field name, the <input name=...> elements in document order, and the    *)
(* <div class="chart"> elements in document order.  An element is the      *)
(* record of the attributes the scraper reads.                             *)
(***************************************************************************)
fields == <<"_token", "returnUrl", "login", "password">>
FieldNames == {fields[i] : i \in 1..Len(fields)}

\* the value a page gives to its hidden input of name f
HtmlValue(f) ==
    CASE f = "_token"    -> "abc123"
      [] f = "returnUrl" -> "/lv/private/"
      [] f = "login"     -> "page-login"
      [] f = "password"  -> "page-password"

\* sequences over S of length at most n
SeqUpTo(S, n) == UNION {[1..k -> S] : k \in 0..n}

\* <input name=f> elements: with a value attribute or, for the two hidden
\* tokens, without one
InputElems(f) ==
    {[value |-> HtmlValue(f)]}
    \cup (IF f \in {"_token", "returnUrl"} THEN {[value |-> None]} ELSE {})

\* the selections of input elements of one name a page may give
InputSels(f) == SeqUpTo(InputElems(f), MaxDup)

\* the input elements of a page, by name
PageInputs ==
    { [f \in FieldNames |->
          CASE f = "_token"    -> a
            [] f = "returnUrl" -> b
            [] f = "login"     -> c
            [] f = "password"  -> d] :
      a \in InputSels("_token"), b \in InputSels("returnUrl"),
      c \in InputSels("login"), d \in InputSels("password") }

NoInputs == [f \in FieldNames |-> <<>>]
LoginForm ==
    [f \in FieldNames |->
        <<[value |-> IF f \in {"_token", "returnUrl"} THEN HtmlValue(f) ELSE None]>>]

\* PyQuery .attr(name) of a selection: the attribute of its first element,
\* None for an empty selection
attr(sel, name) == IF sel = <<>> THEN None ELSE sel[1][name]

(***************************************************************************)
(* JSON.  A JSON value is an object, an array, a number or a string; a     *)
(* JSON text is the string that encodes it.                                *)
(***************************************************************************)
Obj(m) == [t |-> "obj", m |-> m]
Arr(a) == [t |-> "arr", a |-> a]
Num(n) == [t |-> "num", n |-> n]
JStr(s) == [t |-> "str", s |-> s]

\* the order in which object keys are written
KeyOrder == <<"values", "A+", "total", "data", "timestamp", "value">>

RECURSIVE Dumps(_)
RECURSIVE DumpsMembers(_, _, _)
RECURSIVE DumpsItems(_, _)

\* the members of object m with a key in KeyOrder[i..], comma-separated
DumpsMembers(m, i, first) ==
    IF i > Len(KeyOrder) THEN ""
    ELSE IF KeyOrder[i] \notin DOMAIN m THEN DumpsMembers(m, i + 1, first)
    ELSE (IF first THEN "" ELSE ",") \o "\"" \o KeyOrder[i] \o "\":"
         \o Dumps(m[KeyOrder[i]]) \o DumpsMembers(m, i + 1, FALSE)

\* the items a[i..], comma-separated
DumpsItems(a, i) ==
    IF i > Len(a) THEN ""
    ELSE (IF i = 1 THEN "" ELSE ",") \o Dumps(a[i]) \o DumpsItems(a, i + 1)

\* the JSON text of value v
Dumps(v) ==
    CASE v.t = "obj" -> "{" \o DumpsMembers(v.m, 1, TRUE) \o "}"
      [] v.t = "arr" -> "[" \o DumpsItems(v.a, 1) \o "]"
      [] v.t = "num" -> ZeroPad(v.n, 1)
      [] v.t = "str" -> "\"" \o v.s \o "\""

\* {"timestamp": ts, "value": x}
Entry(ts, x) == Obj(("timestamp" :> Num(ts)) @@ ("value" :> Num(x)))

\* entries of a payload: epoch milliseconds at the epoch, inside a second,
\* and on both sides of a local midnight
Entries == {Entry(0, 0), Entry(1999, 12), Entry(79199999, 7), Entry(79200000, 12)}

\* {"values": {"A+": {"total": {"data": d}}}}
Payload(d) == Obj("values" :> Obj("A+" :> Obj("total" :> Obj("data" :> d))))

\* graph payloads with the fixed path
GoodPayloads == {Payload(Arr(a)) : a \in SeqUpTo(Entries, MaxEntries)}

\* JSON values in which the fixed path is cut at some level
BadPayloads ==
    { Arr(<<>>),
      Obj(<<>>),
      Obj("values" :> Obj(<<>>)),
      Obj("values" :> Obj("A+" :> Obj(<<>>))),
      Obj("values" :> Obj("A+" :> Num(7))),
      Obj("values" :> Obj("A+" :> Obj("total" :> Obj(<<>>)))) }

JsonDocs == GoodPayloads \cup BadPayloads

JsonTexts == {Dumps(d) : d \in JsonDocs}

\* a data-values attribute that is not JSON
NotJson == "{oops"

\* the value each JSON text encodes
JsonTable == [s \in JsonTexts |-> CHOOSE d \in JsonDocs : Dumps(d) = s]

\* json.loads(s)
json_loads(s) ==
    IF s = None THEN Raise("TypeError")
    ELSE IF s \in JsonTexts THEN JsonTable[s]
    ELSE Raise("ValueError")

\* Subscript that gives an empty list for a missing key
SubscriptDefault(v, k) ==
    IF IsRaise(v) THEN v
    ELSE IF v.t # "obj" THEN Raise("TypeError")
    ELSE IF k \notin DOMAIN v.m THEN Arr(<<>>)
    ELSE v.m[k]

\* v[k] for a str key k
Subscript(v, k) ==
    IF IsRaise(v) THEN v
    ELSE IF v.t # "obj" THEN Raise("TypeError")
    ELSE IF k \notin DOMAIN v.m THEN Raise("KeyError")
    ELSE v.m[k]

(***************************************************************************)
(* Timestamp formatting.                                                   *)
(***************************************************************************)
\* offset of the host's local time from UTC, in seconds (the docstring's
\* example shows midnight UTC as 02:00:00)
UtcOffset == 7200

Epoch == [y |-> 1970, m |-> 1, d |-> 1]

\* the date n days after date c
RECURSIVE AddDays(_, _)
AddDays(c, n) == IF n = 0 THEN c ELSE AddDays(NextDate(c), n - 1)

\* TrueDiv1000 that rounds to the nearest second
TrueDiv1000Rounded(n) == [whole |-> (n + 500) \div 1000, thousandths |-> 0]

\* n / 1000.0: a float, held as its whole seconds and its thousandths
TrueDiv1000(n) == [whole |-> n \div 1000, thousandths |-> n % 1000]

\* datetime.datetime.fromtimestamp(t): the local date and time of t
fromtimestamp(t) ==
    LET secs == t.whole + UtcOffset
        date == AddDays(Epoch, secs \div 86400)
        rem  == secs % 86400
    IN  [year |-> date.y, month |-> date.m, day |-> date.d,
         hour |-> rem \div 3600, minute |-> (rem % 3600) \div 60,
         second |-> rem % 60, microsecond |-> t.thousandths * 1000]

\* dt.strftime('%Y-%m-%d %H:%M:%S')
strftime(dt) ==
    ZeroPad(dt.year, 4) \o "-" \o ZeroPad(dt.month, 2) \o "-" \o ZeroPad(dt.day, 2)
    \o " " \o ZeroPad(dt.hour, 2) \o ":" \o ZeroPad(dt.minute, 2)
    \o ":" \o ZeroPad(dt.second, 2)

_format_timestamp(timestamp) == strftime(fromtimestamp(TrueDiv1000(timestamp)))

\* one record of the output
FormatItem(item) ==
    [data |-> _format_timestamp(item.m["timestamp"].n), value |-> item.m["value"]]

\* the list comprehension over the raw entries
FormatItems(a) == [i \in 1..Len(a) |-> FormatItem(a[i])]

_format_response(response_data) ==
    LET data == Subscript(Subscript(Subscript(Subscript(
                    response_data, "values"), "A+"), "total"), "data")
    IN  IF IsRaise(data) THEN data
        ELSE IF data.t = "arr" THEN [list |-> FormatItems(data.a)]
        ELSE IF data.t = "obj" /\ DOMAIN data.m = {} THEN [list |-> <<>>]
        ELSE Raise("TypeError")

(***************************************************************************)
(* What the remote site may answer.                                        *)
(***************************************************************************)
\* the selections div.chart may give: no element, or one element whose
\* data-values attribute is absent, not JSON, or a JSON text
Charts ==
    {<<>>} \cup {<<[x \in {"data-values"} |-> v]>> : v \in {None, NotJson} \cup JsonTexts}

EmptyDoc == [inputs |-> NoInputs, chart |-> <<>>]

\* answers to the GET: a login challenge of any shape, or a data page
GetDocs ==
    {[inputs |-> i, chart |-> <<>>] : i \in PageInputs}
    \cup {[inputs |-> NoInputs,
           chart |-> <<[x \in {"data-values"} |-> Dumps(Payload(Arr(<<>>)))]>>]}

\* answers to the POST: a data page of any shape, or the login form again
PostDocs ==
    {[inputs |-> NoInputs, chart |-> c] : c \in Charts}
    \cup {[inputs |-> LoginForm, chart |-> <<>>]}

(***************************************************************************)
(* Inputs of the callers.                                                  *)
(***************************************************************************)
YearArgs == {None, "", "2016"}
MonthArgs == {None, "", "3"}
DayArgs == {None, "", "1"}

NoValue == [unset |-> TRUE]
NoOpts == [unset |-> TRUE]
NoUrl == [base |-> "", query |-> <<>>]
NoArgs == [year |-> None, month |-> None, day |-> None]

(***************************************************************************)
(* State.                                                                  *)
(***************************************************************************)
VARIABLES
    pc,          \* position of the program
    ret,         \* position to which the running get_*_data call returns
    login,       \* self.login
    password,    \* self.password
    meter_id,    \* self.meter_id
    session,     \* self.session: the names of the cookies in its jar
    clock,       \* the date datetime.now() shows
    ticks,       \* midnights crossed so far
    seen,        \* the dates the clock showed during the running _get_data_url
    calls,       \* calls made on the instance so far
    op,          \* the method that was called
    args,        \* the year, month and day it was called with
    period, year, month, day, granularity,   \* arguments of _get_data_url
    params,      \* the dict params of _get_data_url
    url,         \* the value _get_data_url returned
    reqs,        \* HTTP requests issued by the running call, in order
    root,        \* the document PyQuery parsed last
    values,      \* the dict values of _fetch_remote_data
    result,      \* what the call returned or raised
    opts,        \* the parsed command line
    data,        \* the variable data of the script
    stdout,      \* lines printed
    outfile      \* content of the file named by --outfile

vars == <<pc, ret, login, password, meter_id, session, clock, ticks, seen, calls,
          op, args, period, year, month, day, granularity, params, url, reqs, root,
          values, result, opts, data, stdout, outfile>>

instance == <<login, password, meter_id>>
callArgs == <<op, args, period, year, month, day, granularity>>
script == <<opts, data, outfile>>

UrlPcs == {"url_year", "url_period", "url_day", "url_print"}

\* ESTScraper(login, password, meter_id) constructed, no call running
Init ==
    /\ pc = "idle" /\ ret = "idle"
    /\ login = "user" /\ password = "secret" /\ meter_id = "12345"
    /\ session = {}
    /\ clock \in ClockStarts /\ ticks = 0 /\ seen = {}
    /\ calls = 0
    /\ op = None /\ args = NoArgs
    /\ period = None /\ year = None /\ month = None /\ day = None
    /\ granularity = None
    /\ params = <<>> /\ url = NoUrl /\ reqs = <<>> /\ root = EmptyDoc
    /\ values = <<>> /\ result = NoValue
    /\ opts = NoOpts /\ data = NoValue /\ stdout = <<>> /\ outfile = None

(***************************************************************************)
(* The host clock passes midnight.                                         *)
(***************************************************************************)
Tick ==
    /\ ticks < MaxTicks
    /\ pc \notin {"exit", "crashed"}
    /\ clock' = NextDate(clock)
    /\ ticks' = ticks + 1
    /\ seen' = IF pc \in UrlPcs THEN seen \cup {clock'} ELSE seen
    /\ UNCHANGED <<pc, ret, instance, session, calls, callArgs, params, url, reqs,
                   root, values, result, script, stdout>>

\* self._format_now(options)
_format_now(options) == strftime_date(clock, options)
_get_current_year == _format_now("%Y")
_get_current_month == _format_now("%m")
_get_current_day == _format_now("%d")

(***************************************************************************)
(* Entry into a method: the state a call starts in.                        *)
(***************************************************************************)
Enter(o, p, y, m, d, g, r) ==
    /\ op' = o /\ args' = [year |-> y, month |-> m, day |-> d]
    /\ period' = p /\ year' = y /\ month' = m /\ day' = d
    /\ granularity' = g
    /\ ret' = r
    /\ pc' = "url_year"
    /\ calls' = calls + 1
    /\ seen' = {clock}
    /\ params' = <<>> /\ url' = NoUrl /\ reqs' = <<>> /\ root' = EmptyDoc
    /\ values' = <<>> /\ result' = NoValue

\* a caller of the library calls get_day_data(year, month, day)
get_day_data ==
    /\ pc = "idle" /\ calls < MaxFetches
    /\ \E y \in YearArgs, m \in MonthArgs, d \in DayArgs :
          Enter("get_day_data", PERIOD_DAY, y, m, d, GRANULARITY_HOUR, "idle")
    /\ UNCHANGED <<instance, session, clock, ticks, script, stdout>>

\* a caller of the library calls get_month_data(year, month)
get_month_data ==
    /\ pc = "idle" /\ calls < MaxFetches
    /\ \E y \in YearArgs, m \in MonthArgs :
          Enter("get_month_data", PERIOD_MONTH, y, m, None, GRANULARITY_DAY, "idle")
    /\ UNCHANGED <<instance, session, clock, ticks, script, stdout>>

\* a caller of the library calls get_year_data(year)
get_year_data ==
    /\ pc = "idle" /\ calls < MaxFetches
    /\ \E y \in YearArgs :
          Enter("get_year_data", PERIOD_YEAR, y, None, None, None, "idle")
    /\ UNCHANGED <<instance, session, clock, ticks, script, stdout>>

\* a caller calls _get_data_url with arguments of its own choice
_get_data_url ==
    /\ pc = "idle" /\ calls < MaxFetches
    /\ \E p \in Periods, y \in YearArgs, m \in MonthArgs, d \in DayArgs,
          g \in Granularities \cup {None} :
          Enter("_get_data_url", p, y, m, d, g, "idle")
    /\ UNCHANGED <<instance, session, clock, ticks, script, stdout>>

(***************************************************************************)
(* _get_data_url, one step per read of the clock.                          *)
(***************************************************************************)
\* urlencode(params): every value is written as str(value)
urlencode(p) == [k \in DOMAIN p |-> Str(p[k])]

\* '{0}.{1}.{2}'.format(day, month, year)
FormatDate(d, m, y) == Str(d) \o "." \o Str(m) \o "." \o Str(y)

\* params[k] = v
SetItem(p, k, v) == (k :> v) @@ p

\* params = {...}; year = year or self._get_current_year()
UrlYear ==
    /\ pc = "url_year"
    /\ params' = SetItem(SetItem(<<>>, "counterNumber", meter_id), "period", period)
    /\ year' = Or(year, _get_current_year)
    /\ pc' = "url_period"
    /\ UNCHANGED <<ret, instance, session, clock, ticks, seen, calls, op, args, period,
                   month, day, granularity, url, reqs, root, values, result, script,
                   stdout>>

\* UrlPeriod that also sends the granularity of a year request
UrlPeriodYearGranularity ==
    /\ pc = "url_period"
    /\ IF period = PERIOD_YEAR
       THEN /\ params' = SetItem(SetItem(params, "year", year),
                                 "granularity", granularity)
            /\ month' = month
            /\ pc' = "url_print"
       ELSE IF period = PERIOD_MONTH
       THEN /\ params' = SetItem(SetItem(SetItem(params, "year", year),
                              "month", Or(month, _get_current_month)),
                              "granularity", granularity)
            /\ month' = month
            /\ pc' = "url_print"
       ELSE /\ period = PERIOD_DAY
            /\ month' = Or(month, _get_current_month)
            /\ params' = params
            /\ pc' = "url_day"
    /\ UNCHANGED <<ret, instance, session, clock, ticks, seen, calls, op, args, period,
                   year, day, granularity, url, reqs, root, values, result, script,
                   stdout>>

\* the three tests of period, up to the read of the clock's month
UrlPeriod ==
    /\ pc = "url_period"
    /\ IF period = PERIOD_YEAR
       THEN /\ params' = SetItem(params, "year", year)
            /\ month' = month
            /\ pc' = "url_print"
       ELSE IF period = PERIOD_MONTH
       THEN /\ params' = SetItem(SetItem(SetItem(params, "year", year),
                              "month", Or(month, _get_current_month)),
                              "granularity", granularity)
            /\ month' = month
            /\ pc' = "url_print"
       ELSE /\ period = PERIOD_DAY
            /\ month' = Or(month, _get_current_month)
            /\ params' = params
            /\ pc' = "url_day"
    /\ UNCHANGED <<ret, instance, session, clock, ticks, seen, calls, op, args, period,
                   year, day, granularity, url, reqs, root, values, result, script,
                   stdout>>

\* day = day or self._get_current_day(); params['date'], params['granularity']
UrlDay ==
    /\ pc = "url_day"
    /\ day' = Or(day, _get_current_day)
    /\ params' = SetItem(SetItem(params, "date", FormatDate(day', month, year)),
                         "granularity", granularity)
    /\ pc' = "url_print"
    /\ UNCHANGED <<ret, instance, session, clock, ticks, seen, calls, op, args, period,
                   year, month, granularity, url, reqs, root, values, result, script,
                   stdout>>

\* print(url); return url.  Of the printed line only its kind is kept.
UrlReturn ==
    /\ pc = "url_print"
    /\ url' = [base |-> DATA_URL, query |-> urlencode(params)]
    /\ stdout' = Append(stdout, [kind |-> "url"])
    /\ pc' = "url_ret"
    /\ UNCHANGED <<ret, instance, session, clock, ticks, seen, calls, callArgs,
                   params, reqs, root, values, result, script>>

\* the caller of _get_data_url has the URL
ReturnUrl ==
    /\ pc = "url_ret" /\ op = "_get_data_url"
    /\ pc' = "idle"
    /\ op' = None /\ args' = NoArgs
    /\ period' = None /\ year' = None /\ month' = None /\ day' = None
    /\ granularity' = None
    /\ params' = <<>> /\ url' = NoUrl /\ seen' = {}
    /\ UNCHANGED <<ret, instance, session, clock, ticks, calls, reqs, root, values,
                   result, script, stdout>>

(***************************************************************************)
(* _fetch_remote_data.                                                     *)
(***************************************************************************)
FetchOps == {"get_day_data", "get_month_data", "get_year_data"}

\* Get that takes a first response with a chart as the data page
GetSkipsLogin ==
    /\ pc = "url_ret" /\ op \in FetchOps
    /\ reqs' = Append(reqs, [method |-> "GET", url |-> url.base, data |-> <<>>,
                             cookies |-> session])
    /\ args' = NoArgs /\ period' = None /\ year' = None /\ month' = None
    /\ day' = None
    /\ granularity' = None /\ params' = <<>> /\ url' = NoUrl /\ seen' = {}
    /\ \/ /\ \E doc \in GetDocs :
                /\ root' = doc
                /\ pc' = IF doc.chart = <<>> THEN "extract" ELSE "parse"
          /\ session' = session \cup {"session"}
          /\ result' = result
       \/ /\ result' = Raise("RequestException")
          /\ pc' = "raised"
          /\ UNCHANGED <<root, session>>
    /\ UNCHANGED <<ret, instance, clock, ticks, calls, op, values, script, stdout>>

\* response = self.session.get(url); root = PyQuery(response.text)
Get ==
    /\ pc = "url_ret" /\ op \in FetchOps
    /\ reqs' = Append(reqs, [method |-> "GET", url |-> url.base, data |-> <<>>,
                             cookies |-> session])
    /\ args' = NoArgs /\ period' = None /\ year' = None /\ month' = None
    /\ day' = None
    /\ granularity' = None /\ params' = <<>> /\ url' = NoUrl /\ seen' = {}
    /\ \/ /\ \E doc \in GetDocs : root' = doc
          /\ session' = session \cup {"session"}
          /\ pc' = "extract"
          /\ result' = result
       \/ /\ result' = Raise("RequestException")
          /\ pc' = "raised"
          /\ UNCHANGED <<root, session>>
    /\ UNCHANGED <<ret, instance, clock, ticks, calls, op, values, script, stdout>>

\* Extract in which a scraped login or password wins over the credentials
ExtractKeepsScraped ==
    /\ pc = "extract"
    /\ LET scraped == [f \in FieldNames |-> attr(root.inputs[f], "value")]
       IN  values' = [f \in FieldNames |->
                        IF f = "login" /\ scraped[f] = None THEN login
                        ELSE IF f = "password" /\ scraped[f] = None THEN password
                        ELSE scraped[f]]
    /\ pc' = "post"
    /\ UNCHANGED <<ret, instance, session, clock, ticks, seen, calls, callArgs,
                   params, url, reqs, root, result, script, stdout>>

\* the loop over fields, then values['login'], values['password']
Extract ==
    /\ pc = "extract"
    /\ LET scraped == [f \in FieldNames |-> attr(root.inputs[f], "value")]
       IN  values' = SetItem(SetItem(scraped, "login", login), "password", password)
    /\ pc' = "post"
    /\ UNCHANGED <<ret, instance, session, clock, ticks, seen, calls, callArgs,
                   params, url, reqs, root, result, script, stdout>>

\* response = self.session.post(self.LOGIN_URL, data=values); root = PyQuery(...)
Post ==
    /\ pc = "post"
    /\ reqs' = Append(reqs, [method |-> "POST", url |-> LOGIN_URL, data |-> values,
                             cookies |-> session])
    /\ \/ /\ \E doc \in PostDocs : root' = doc
          /\ \E sc \in {{}, {"auth"}} : session' = session \cup sc
          /\ pc' = "parse"
          /\ result' = result
       \/ /\ result' = Raise("RequestException")
          /\ pc' = "raised"
          /\ UNCHANGED <<root, session>>
    /\ UNCHANGED <<ret, instance, clock, ticks, seen, calls, callArgs, params, url,
                   values, script, stdout>>

\* values = root('div.chart').attr('data-values'); return json.loads(values);
\* then, in get_*_data, return self._format_response(response)
Parse ==
    /\ pc = "parse"
    /\ LET response == json_loads(attr(root.chart, "data-values"))
       IN  result' = IF IsRaise(response) THEN response ELSE _format_response(response)
    /\ pc' = IF IsRaise(result') THEN "raised" ELSE "returned"
    /\ values' = <<>>
    /\ UNCHANGED <<ret, instance, session, clock, ticks, seen, calls, callArgs,
                   params, url, reqs, root, script, stdout>>

\* the caller of the library has the result or the exception
Return ==
    /\ pc \in {"returned", "raised"} /\ ret = "idle"
    /\ pc' = "idle"
    /\ op' = None /\ reqs' = <<>> /\ root' = EmptyDoc /\ values' = <<>>
    /\ result' = NoValue
    /\ UNCHANGED <<ret, instance, session, clock, ticks, seen, calls, args, period,
                   year, month, day, granularity, params, url, script, stdout>>

Next ==
    \/ Tick
    \/ get_day_data \/ get_month_data \/ get_year_data \/ _get_data_url
    \/ UrlYear \/ UrlPeriod \/ UrlDay \/ UrlReturn \/ ReturnUrl
    \/ Get \/ Extract \/ Post \/ Parse \/ Return

Spec == Init /\ [][Next]_vars

(***************************************************************************)
(* The script (__main__).                                                  *)
(***************************************************************************)
Usernames == {None, "", "user"}
Passwords == {None, "", "secret"}
Meters == {None, "", "12345"}
PeriodOpts == {"day", "month", "year", "week"}
Outfiles == {None, "out.json"}

\* the namespaces parser.parse_args() may return
Opts ==
    [username : Usernames, password : Passwords, meter : Meters,
     period : PeriodOpts, year : {None, "2016"}, month : {None, "3"},
     day : {None, "1"}, outfile : Outfiles]

\* opts = parser.parse_args() done, nothing else yet
InitMain ==
    /\ pc = "main" /\ ret = "main"
    /\ opts \in Opts
    /\ login = Unset /\ password = Unset /\ meter_id = Unset
    /\ session = {}
    /\ clock \in ClockStarts /\ ticks = 0 /\ seen = {}
    /\ calls = 0
    /\ op = None /\ args = NoArgs
    /\ period = None /\ year = None /\ month = None /\ day = None
    /\ granularity = None
    /\ params = <<>> /\ url = NoUrl /\ reqs = <<>> /\ root = EmptyDoc
    /\ values = <<>> /\ result = NoValue
    /\ data = NoValue /\ stdout = <<>> /\ outfile = None

\* MainValidate without the test of the meter
MainValidateNoMeter ==
    /\ pc = "main"
    /\ IF ~Truthy(opts.username) \/ ~Truthy(opts.password)
       THEN /\ result' = Raise("Exception: Username and/or password must be set")
            /\ pc' = "crashed"
       ELSE /\ result' = result
            /\ pc' = "main_init"
    /\ UNCHANGED <<ret, instance, session, clock, ticks, seen, calls, callArgs,
                   params, url, reqs, root, values, script, stdout>>

\* the two tests of the options, each raising Exception
MainValidate ==
    /\ pc = "main"
    /\ IF ~Truthy(opts.username) \/ ~Truthy(opts.password)
       THEN /\ result' = Raise("Exception: Username and/or password must be set")
            /\ pc' = "crashed"
       ELSE IF ~Truthy(opts.meter)
       THEN /\ result' = Raise("Exception: Electricity meter ID must be set")
            /\ pc' = "crashed"
       ELSE /\ result' = result
            /\ pc' = "main_init"
    /\ UNCHANGED <<ret, instance, session, clock, ticks, seen, calls, callArgs,
                   params, url, reqs, root, values, script, stdout>>

\* scraper = ESTScraper(opts.username, opts.password, opts.meter)
MainConstruct ==
    /\ pc = "main_init"
    /\ login' = opts.username /\ password' = opts.password /\ meter_id' = opts.meter
    /\ session' = {}
    /\ pc' = "main_year"
    /\ UNCHANGED <<ret, clock, ticks, seen, calls, callArgs, params, url, reqs, root,
                   values, result, script, stdout>>

\* if opts.period == 'year': data = scraper.get_year_data(opts.year)
MainIfYear ==
    /\ pc = "main_year"
    /\ IF opts.period = "year"
       THEN Enter("get_year_data", PERIOD_YEAR, opts.year, None, None, None,
                  "main_month")
       ELSE /\ pc' = "main_month"
            /\ UNCHANGED <<ret, seen, calls, callArgs, params, url, reqs, root,
                           values, result>>
    /\ UNCHANGED <<instance, session, clock, ticks, script, stdout>>

\* if opts.period == 'month': data = scraper.get_month_data(opts.year, opts.month)
MainIfMonth ==
    /\ pc = "main_month"
    /\ IF opts.period = "month"
       THEN Enter("get_month_data", PERIOD_MONTH, opts.year, opts.month, None,
                  GRANULARITY_DAY, "main_day")
       ELSE /\ pc' = "main_day"
            /\ UNCHANGED <<ret, seen, calls, callArgs, params, url, reqs, root,
                           values, result>>
    /\ UNCHANGED <<instance, session, clock, ticks, script, stdout>>

\* MainIfDay as a final else: any other period is taken as day
MainIfDayElse ==
    /\ pc = "main_day"
    /\ IF opts.period \notin {"year", "month"}
       THEN Enter("get_day_data", PERIOD_DAY, opts.year, opts.month, opts.day,
                  GRANULARITY_HOUR, "main_dumps")
       ELSE /\ pc' = "main_dumps"
            /\ UNCHANGED <<ret, seen, calls, callArgs, params, url, reqs, root,
                           values, result>>
    /\ UNCHANGED <<instance, session, clock, ticks, script, stdout>>

\* if opts.period == 'day':
\*     data = scraper.get_day_data(opts.year, opts.month, opts.day)
MainIfDay ==
    /\ pc = "main_day"
    /\ IF opts.period = "day"
       THEN Enter("get_day_data", PERIOD_DAY, opts.year, opts.month, opts.day,
                  GRANULARITY_HOUR, "main_dumps")
       ELSE /\ pc' = "main_dumps"
            /\ UNCHANGED <<ret, seen, calls, callArgs, params, url, reqs, root,
                           values, result>>
    /\ UNCHANGED <<instance, session, clock, ticks, script, stdout>>

\* the call returned: data = <the list>
MainAssign ==
    /\ pc = "returned" /\ ret # "idle"
    /\ data' = result
    /\ pc' = ret
    /\ op' = None /\ root' = EmptyDoc /\ result' = NoValue
    /\ UNCHANGED <<ret, instance, session, clock, ticks, seen, calls, args, period,
                   year, month, day, granularity, params, url, reqs, values, opts,
                   outfile, stdout>>

\* the call raised: nothing catches the exception
MainRaise ==
    /\ pc = "raised" /\ ret # "idle"
    /\ pc' = "crashed"
    /\ UNCHANGED <<ret, instance, session, clock, ticks, seen, calls, callArgs,
                   params, url, reqs, root, values, result, script, stdout>>

\* the records as a JSON value
RecordsJson(l) ==
    Arr([i \in 1..Len(l) |->
            Obj(("data" :> JStr(l[i].data)) @@ ("value" :> l[i].value))])

\* data = json.dumps(data, indent=4); the white space of the indentation is
\* not written
MainDumps ==
    /\ pc = "main_dumps"
    /\ IF data = NoValue
       THEN /\ result' = Raise("NameError: name 'data' is not defined")
            /\ pc' = "crashed"
            /\ data' = data
       ELSE /\ data' = [text |-> Dumps(RecordsJson(data.list))]
            /\ pc' = "main_out"
            /\ result' = result
    /\ UNCHANGED <<ret, instance, session, clock, ticks, seen, calls, callArgs,
                   params, url, reqs, root, values, opts, outfile, stdout>>

\* write the text to the file named by --outfile, or print it
MainOutput ==
    /\ pc = "main_out"
    /\ IF Truthy(opts.outfile)
       THEN /\ outfile' = data.text
            /\ stdout' = stdout
       ELSE /\ stdout' = Append(stdout, [kind |-> "json", text |-> data.text])
            /\ outfile' = outfile
    /\ pc' = "exit"
    /\ UNCHANGED <<ret, instance, session, clock, ticks, seen, calls, callArgs,
                   params, url, reqs, root, values, result, opts, data>>

NextMain ==
    \/ Tick
    \/ MainValidate \/ MainConstruct \/ MainIfYear \/ MainIfMonth \/ MainIfDay
    \/ UrlYear \/ UrlPeriod \/ UrlDay \/ UrlReturn
    \/ Get \/ Extract \/ Post \/ Parse
    \/ MainAssign \/ MainRaise \/ MainDumps \/ MainOutput

SpecMain == InitMain /\ [][NextMain]_vars

(***************************************************************************)
(* Properties.                                                             *)
(***************************************************************************)
\* the methods of the requests issued so far by the running call
Methods == [i \in 1..Len(reqs) |-> reqs[i].method]

\* the call failed in the HTTP transport
TransportError == IsRaise(result) /\ result.exc = "RequestException"

\* C1: a fetch issues the GET to the data URL and then, whatever the first
\* response holds and also when the session is already authenticated, the
\* POST to the login URL: once the first response is there the call goes on
\* to the POST, and it ends (other than in a transport error) only after
\* exactly one GET and one POST, in that order.
C1_GetThenPost ==
    op \in FetchOps =>
        /\ pc \in UrlPcs \cup {"url_ret"} => reqs = <<>>
        /\ pc \in {"extract", "post"} => Methods = <<"GET">>
        /\ pc \in {"parse", "returned"} => Methods = <<"GET", "POST">>
        /\ pc = "raised" =>
              \/ Methods = <<"GET", "POST">>
              \/ TransportError /\ Methods = <<"GET">>
        /\ Len(reqs) >= 1 => reqs[1].url = DATA_URL
        /\ Len(reqs) >= 2 => reqs[2].url = LOGIN_URL

\* a later fetch whose GET already carried the authenticated session has
\* returned after its POST
C1_Witness ==
    /\ pc = "returned" /\ calls = 2
    /\ Methods = <<"GET", "POST">>
    /\ "auth" \in reqs[1].cookies

\* the value of the first input of name f in document doc, None without one
FirstInputValue(doc, f) ==
    IF Len(doc.inputs[f]) = 0 THEN None ELSE doc.inputs[f][1].value

\* the four keys, the credentials of the instance in login and password
BodyHasCredentials(body) ==
    /\ DOMAIN body = {"_token", "returnUrl", "login", "password"}
    /\ body["login"] = login
    /\ body["password"] = password

\* C2: the body of the login POST has exactly the keys _token, returnUrl,
\* login and password; login and password are the credentials of the
\* instance whatever the page's inputs hold; _token and returnUrl are the
\* values of the page's (first) inputs of these names, None for a field the
\* page lacks, and extraction does not fail.
C2_PostBody ==
    /\ pc = "post" =>
          /\ BodyHasCredentials(values)
          /\ \A f \in {"_token", "returnUrl"} : values[f] = FirstInputValue(root, f)
    /\ \A i \in 1..Len(reqs) :
          reqs[i].method = "POST" =>
              /\ BodyHasCredentials(reqs[i].data)
              /\ pc = "parse" => reqs[i].data = values

\* a POST has been sent for a page without _token and with returnUrl
C2_Witness ==
    /\ pc = "parse"
    /\ reqs[2].data["_token"] = None
    /\ reqs[2].data["returnUrl"] = HtmlValue("returnUrl")
    /\ reqs[2].data["login"] = "user"

\* C3: the query parameters of the data URL are fixed by the period:
\* counterNumber and period always; for YEAR only year besides; for MONTH
\* year, month and granularity (D from get_month_data); for DAY date and
\* granularity.
C3_QueryParameters ==
    pc = "url_ret" =>
        /\ url.base = DATA_URL
        /\ url.query["counterNumber"] = meter_id
        /\ url.query["period"] = period
        /\ period = PERIOD_YEAR =>
              DOMAIN url.query = {"counterNumber", "period", "year"}
        /\ period = PERIOD_MONTH =>
              /\ DOMAIN url.query =
                    {"counterNumber", "period", "year", "month", "granularity"}
              /\ op = "get_month_data" => url.query["granularity"] = "D"
        /\ period = PERIOD_DAY =>
              DOMAIN url.query = {"counterNumber", "period", "date", "granularity"}

\* a YEAR URL has been built by a call that passed a granularity
C3_Witness ==
    /\ pc = "url_ret" /\ period = PERIOD_YEAR
    /\ granularity = GRANULARITY_HOUR
    /\ "year" \in DOMAIN url.query

\* s, zero-padded on the left to two characters
Pad2(s) == IF Len(s) = 1 THEN "0" \o s ELSE s

\* C4: get_day_data with explicit year, month and day gives granularity=H
\* and date=DD.MM.YYYY with day and month zero-padded to two digits.
C4_ZeroPaddedDate ==
    (/\ pc = "url_ret" /\ op = "get_day_data"
     /\ Truthy(args.year) /\ Truthy(args.month) /\ Truthy(args.day)) =>
        /\ url.query["granularity"] = "H"
        /\ url.query["date"] =
              Pad2(args.day) \o "." \o Pad2(args.month) \o "." \o args.year

\* the values a component may take in the URL when the caller passed a:
\* a itself, or the clock's component at some moment of the call
Supplied(a) == {a}
Defaulted(directive) == {strftime_date(c, directive) : c \in seen}

\* the URL uses year, month, day drawn from Y, M, D in the places the
\* period requires
UrlUses(Y, M, D) ==
    /\ period = PERIOD_YEAR => url.query["year"] \in Y
    /\ period = PERIOD_MONTH =>
          url.query["year"] \in Y /\ url.query["month"] \in M
    /\ period = PERIOD_DAY =>
          \E y \in Y, m \in M, d \in D :
              url.query["date"] = d \o "." \o m \o "." \o y

\* C5 as stated: a component is taken from the clock when the caller omitted
\* it (None) and is used unchanged whenever the caller supplied it.
C5_SuppliedUnchanged ==
    pc = "url_ret" =>
        UrlUses(IF args.year = None THEN Defaulted("%Y")
                ELSE Supplied(args.year),
                IF args.month = None THEN Defaulted("%m")
                ELSE Supplied(args.month),
                IF args.day = None THEN Defaulted("%d")
                ELSE Supplied(args.day))

\* C5 amended: a component that is omitted or empty (None or '') is taken
\* from the clock as it stood at some moment of the call, and is then not
\* empty; a non-empty component is used unchanged.
C5_NonEmptyUnchanged ==
    pc = "url_ret" =>
        /\ UrlUses(IF Truthy(args.year) THEN Supplied(args.year)
                   ELSE Defaulted("%Y"),
                   IF Truthy(args.month) THEN Supplied(args.month)
                   ELSE Defaulted("%m"),
                   IF Truthy(args.day) THEN Supplied(args.day)
                   ELSE Defaulted("%d"))
        /\ \A k \in DOMAIN url.query \ {"granularity"} :
              url.query[k] \notin {"", "None"}

\* a DAY URL built from a supplied month, an omitted year and an empty day
C5_Witness ==
    /\ pc = "url_ret" /\ period = PERIOD_DAY
    /\ args.year = None /\ args.month = "3" /\ args.day = ""
    /\ url.query["date"] = "31.3.2015"

\* the raw entries of the page the POST returned
RawEntries(doc) ==
    LET payload == JsonTable[doc.chart[1]["data-values"]]
    IN  payload.m["values"].m["A+"].m["total"].m["data"].a

\* the formatted local time of a whole number of seconds since the epoch
FormatSeconds(secs) == strftime(fromtimestamp([whole |-> secs, thousandths |-> 0]))

\* C6: for a payload of N entries the normalizer returns N records; record
\* i carries entry i's value unchanged and the formatted local time of entry
\* i's timestamp integer-divided by 1000.
C6_Normalizer ==
    pc = "returned" =>
        LET raw == RawEntries(root)
            out == result.list
        IN  /\ Len(out) = Len(raw)
            /\ \A i \in 1..Len(raw) :
                  /\ DOMAIN out[i] = {"data", "value"}
                  /\ out[i].value = raw[i].m["value"]
                  /\ out[i].data = FormatSeconds(raw[i].m["timestamp"].n \div 1000)

\* two entries on both sides of a local midnight have been normalized
C6_Witness ==
    /\ pc = "returned"
    /\ Len(result.list) = 2
    /\ result.list[1] = [data |-> "1970-01-01 23:59:59", value |-> Num(7)]
    /\ result.list[2] = [data |-> "1970-01-02 00:00:00", value |-> Num(12)]

\* a required option is missing or empty
MissingOption ==
    ~Truthy(opts.username) \/ ~Truthy(opts.password) \/ ~Truthy(opts.meter)

\* nothing was requested, printed or written
NoEffect ==
    /\ reqs = <<>> /\ calls = 0
    /\ stdout = <<>> /\ outfile = None

\* C7: with --username, --password or --meter missing or empty the run ends
\* in a fatal error and at no point has an HTTP request been issued or
\* anything been printed or written.
C7_FailFast ==
    MissingOption =>
        /\ NoEffect
        /\ pc \in {"main", "crashed"}
        /\ pc = "crashed" => IsRaise(result)

\* a run with credentials and an empty meter has ended in the fatal error
C7_Witness ==
    /\ pc = "crashed"
    /\ opts.username = "user" /\ opts.password = "secret" /\ opts.meter = ""
    /\ result = Raise("Exception: Electricity meter ID must be set")

\* the page has no chart element, or no data-values attribute, or the
\* attribute is not JSON, or the JSON lacks values -> A+ -> total -> data
BadPage(doc) ==
    \/ Len(doc.chart) = 0
    \/ LET v == doc.chart[1]["data-values"]
       IN  \/ v = None
           \/ v \notin JsonTexts
           \/ \E d \in BadPayloads : Dumps(d) = v

\* C8: when the page the POST returned is such a page, the fetch ends in a
\* fatal error; it never returns a list, empty or not.
C8_ParseErrorIsFatal ==
    (Methods = <<"GET", "POST">> /\ pc \in {"returned", "raised"}
     /\ ~TransportError /\ BadPage(root)) =>
        /\ pc = "raised"
        /\ IsRaise(result)
        /\ data = NoValue

\* a fetch has failed on a payload without the key data
C8_Witness ==
    /\ pc = "raised"
    /\ Len(root.chart) = 1
    /\ root.chart[1]["data-values"] = "{\"values\":{\"A+\":{\"total\":{}}}}"
    /\ result = Raise("KeyError")

\* C9: with valid credentials and meter and a --period that is none of
\* day, month, year, no fetch is invoked and no HTTP request is issued, data
\* stays unset, and nothing is printed or written (the run ends when
\* json.dumps reads the unset data).
C9_UnknownPeriodNoOp ==
    (~MissingOption /\ opts.period \notin {"day", "month", "year"}) =>
        /\ NoEffect
        /\ data = NoValue
        /\ op = None
        /\ pc \notin {"main_out", "exit"}

\* a run with --period week has passed the three tests of the period
C9_Witness ==
    /\ opts.period = "week"
    /\ pc = "crashed"
    /\ result = Raise("NameError: name 'data' is not defined")
    /\ login = "user"

\* dd.mm.yyyy of date c, as the clock's three components give it
ClockDate(c) ==
    strftime_date(c, "%d") \o "." \o strftime_date(c, "%m") \o "."
    \o strftime_date(c, "%Y")

\* C10: when a DAY request omits year, month and day, the date in the URL is
\* a date the clock showed at one moment of the call.
C10_DateOfOneInstant ==
    (/\ pc = "url_ret" /\ period = PERIOD_DAY
     /\ args.year = None /\ args.month = None /\ args.day = None) =>
        \E c \in seen : url.query["date"] = ClockDate(c)

====
